---- MODULE Spec2Model ----
(***************************************************************************)
(* Model of the two fixture generators of the repository:                  *)
(*   generadorDetallesDeOrden.py  (measurement sequence generator)         *)
(*   generadorOrdenesSap.py       (order payload generator)                *)
(*                                                                         *)
(* Floats are modelled as exact rationals [n, d].  Masses, temperatures    *)
(* and flows are counted in units of 1/(1000*MilliParts) so that inputs    *)
(* finer than the three decimals kept by round(x, 3) exist; densities are  *)
(* counted in units of 1e-6.  round() is round-half-even, as in Python.    *)
(*                                                                         *)
(* random.Random is modelled as a stream of raw words 0..RD-1: random()    *)
(* is w/RD, uniform(a,b) is a + (b-a)*w/RD, gauss(mu,sigma) is             *)
(* mu + sigma*ZOf(w), choice of two is index (2*w) \div RD.  One action    *)
(* per rng call: the call and the straight-line code that follows it.      *)
(***************************************************************************)
EXTENDS Integers, Sequences, FiniteSets, TLC

VARIABLES
    args,           \* parse_args() of generadorDetallesDeOrden.py
    pc,             \* position in build_details / generate_increments
    rng,            \* random.Random(args.seed): words drawn so far
    vals,           \* generate_increments: incs before rescaling
    incs,           \* generate_increments: returned list
    i,              \* build_details: loop index
    prev_true,      \* build_details: prev_true
    true_masa,      \* build_details: true_masa
    dens,           \* build_details: dens
    caudal,         \* build_details: caudal
    alt,            \* build_details: second element of the list given to rng.choice
    temp,           \* build_details: temp
    reported_masa,  \* build_details: reported_masa
    n_records,      \* len(records)
    record,         \* records[-1]
    prev_masa,      \* records[-2]["masaAcumulada"]
    run,            \* 0: a single run; 1, 2: the first and the second of two runs
    first,          \* the records returned by run 1
    out,            \* the records appended by the current run, in order
    sargs,          \* parse_args() of generadorOrdenesSap.py
    spc,            \* position in main of generadorOrdenesSap.py
    defaults,       \* the value build_default_payload returned
    payload,        \* main: payload
    out_name        \* main: output_name

detVars == <<args, pc, rng, vals, incs, i, prev_true, true_masa, dens, caudal,
             alt, temp, reported_masa, n_records, record, prev_masa, run, first, out>>
sapVars == <<sargs, spc, defaults, payload, out_name>>
vars == <<detVars, sapVars>>
locals == <<dens, caudal, alt, temp, reported_masa>>
recs == <<n_records, record, prev_masa>>
hist == <<run, first, out>>

(***************************************************************************)
(* Bounds of the model                                                     *)
(***************************************************************************)
MaxN == 2
RD == 2
MilliParts == 4
ProbDen == 2
MaxFlags == 2
MaxCisLen == 2

(***************************************************************************)
(* Program constants                                                       *)
(***************************************************************************)
DEFAULT_ORDER_ID == 25
NoSeed == -1

(***************************************************************************)
(* Rational arithmetic                                                     *)
(***************************************************************************)
Abs(x) == IF x < 0 THEN -x ELSE x

RECURSIVE GCD(_, _)
GCD(a, b) == IF b = 0 THEN a ELSE GCD(b, a % b)

Rat(n, d) == LET g == GCD(Abs(n), d) IN [n |-> n \div g, d |-> d \div g]
R(n) == [n |-> n, d |-> 1]
LCM(a, b) == (a \div GCD(a, b)) * b
RAdd(a, b) == LET l == LCM(a.d, b.d) IN Rat(a.n * (l \div a.d) + b.n * (l \div b.d), l)
RNeg(a) == [n |-> -a.n, d |-> a.d]
RSub(a, b) == RAdd(a, RNeg(b))
RMul(a, b) ==
    LET g1 == GCD(Abs(a.n), b.d)
        g2 == GCD(Abs(b.n), a.d)
    IN  [n |-> (a.n \div g1) * (b.n \div g2), d |-> (a.d \div g2) * (b.d \div g1)]
RInv(a) == [n |-> a.d, d |-> a.n]
RLt(a, b) == LET l == LCM(a.d, b.d) IN a.n * (l \div a.d) < b.n * (l \div b.d)
RLe(a, b) == ~RLt(b, a)
RMax(a, b) == IF RLt(a, b) THEN b ELSE a
RAbs(a) == [n |-> Abs(a.n), d |-> a.d]
Zero == R(0)

RECURSIVE RSum(_)
RSum(s) == IF s = <<>> THEN Zero ELSE RAdd(s[1], RSum(Tail(s)))

\* nearest integer, ties to the even one
RoundHE(a) ==
    LET q == a.n \div a.d
        r == a.n % a.d
    IN  IF 2 * r < a.d THEN q
        ELSE IF 2 * r > a.d THEN q + 1
        ELSE IF q % 2 = 0 THEN q ELSE q + 1

\* round(x, 3) of a mass, temperature or flow: the result counted in 1e-3
Round3(x) == RoundHE(RMul(x, Rat(1, MilliParts)))
\* round(x, 6) of a density: the result counted in 1e-6
Round6(x) == RoundHE(x)

\* a quantity of q thousandths, in model units
Milli(q) == R(q * MilliParts)
Micro(q) == R(q)

(***************************************************************************)
(* The random source                                                       *)
(***************************************************************************)
Raw == 0 .. (RD - 1)
Unit(w) == Rat(w, RD)
ZOf(w) == 4 * w - 3

\* a draw from the module-level generator, which args.seed does not seed
StreamGlobal(w) == rng' = rng

\* rng yields word w at this call.  A generator seeded with the same explicit
\* seed yields the same word at the same position of its stream (rng.tape holds
\* the words of that stream seen so far); one seeded from entropy yields any word.
Stream(w) ==
    /\ rng.pos < Len(rng.tape) => w = rng.tape[rng.pos + 1]
    /\ rng' = IF rng.seeded
              THEN [rng EXCEPT !.pos = @ + 1,
                               !.tape = IF rng.pos < Len(@) THEN @ ELSE Append(@, w)]
              ELSE rng

Random(w) == Unit(w)
Uniform(a, b, w) == RAdd(a, RMul(RSub(b, a), Unit(w)))
Gauss(mu, sigma, w) == RAdd(mu, RMul(sigma, R(ZOf(w))))
Choice(seq, w) == seq[((Len(seq) * w) \div RD) + 1]

Prob(p) == Rat(p, ProbDen)
\* rng.random() <= p
HitInclusive(p, w) == RLe(Random(w), Prob(p))
\* rng.random() > p
HitInverted(p, w) == RLt(Prob(p), Random(w))
\* rng.random() < p
Hit(p, w) == RLt(Random(w), Prob(p))

(***************************************************************************)
(* generate_increments                                                     *)
(***************************************************************************)
\* total - start, not clamped at 0
RemainingUnclamped == RSub(R(args.final_mass), R(args.start_mass))
Remaining == RMax(Zero, RSub(R(args.final_mass), R(args.start_mass)))
\* line 68
Base == IF args.iterations # 0 THEN RMul(Remaining, Rat(1, args.iterations)) ELSE Zero
\* generate_increments without its early return
EarlyReturnMissing == FALSE
\* line 65
EarlyReturn == args.iterations <= 0

NextSample(vs) ==
    /\ vals' = vs
    /\ pc' = IF Len(vs) = args.iterations THEN "sum" ELSE "gauss"

Enter ==
    /\ pc = "enter"
    /\ IF EarlyReturn
       THEN /\ incs' = <<>>
            /\ pc' = "for"
       ELSE /\ incs' = incs
            /\ pc' = IF args.iterations >= 1 THEN "gauss" ELSE "sum"
    /\ UNCHANGED <<args, rng, vals, i, prev_true, true_masa, locals, recs, hist, sapVars>>

IncGauss ==
    /\ pc = "gauss"
    /\ \E w \in Raw :
        /\ Stream(w)
        /\ LET val == Gauss(Base, RMax(Milli(1), RMul(Base, Rat(4, 10))), w)
           IN  IF RLt(val, Zero)
               THEN /\ pc' = "uniform"
                    /\ vals' = vals
               ELSE NextSample(Append(vals, val))
    /\ UNCHANGED <<args, incs, i, prev_true, true_masa, locals, recs, hist, sapVars>>

IncUniform ==
    /\ pc = "uniform"
    /\ \E w \in Raw :
        /\ Stream(w)
        /\ NextSample(Append(vals, Uniform(Zero, RMul(Base, Rat(2, 10)), w)))
    /\ UNCHANGED <<args, incs, i, prev_true, true_masa, locals, recs, hist, sapVars>>

\* line 81 divides by iterations: ZeroDivisionError when it is 0
DividesByZero(vs) == RLe(RSum(vs), Zero) /\ args.iterations = 0

EqualSplit == [k \in 1 .. args.iterations |-> RMul(Remaining, Rat(1, args.iterations))]

\* the samples returned without the scaling of lines 84-85
RescaledUnscaled(vs) == IF RLe(RSum(vs), Zero) THEN EqualSplit ELSE vs

Rescaled(vs) ==
    LET sum_incs == RSum(vs)
    IN  IF RLe(sum_incs, Zero)
        THEN EqualSplit
        ELSE LET factor == RMul(Remaining, RInv(sum_incs))
             IN  [k \in 1 .. Len(vs) |-> RMul(vs[k], factor)]

IncSum ==
    /\ pc = "sum"
    /\ IF DividesByZero(vals)
       THEN /\ pc' = "raised"
            /\ incs' = incs
       ELSE /\ pc' = "for"
            /\ incs' = Rescaled(vals)
    /\ vals' = <<>>
    /\ UNCHANGED <<args, rng, i, prev_true, true_masa, locals, recs, hist, sapVars>>

(***************************************************************************)
(* build_details: the loop over enumerate(incs)                            *)
(***************************************************************************)
\* the increment subtracted
AccumulateBackwards(t, inc) == RSub(t, inc)
Accumulate(t, inc) == RAdd(t, inc)

ForNext ==
    /\ pc = "for"
    /\ i < Len(incs)
    /\ prev_true' = true_masa
    /\ true_masa' = Accumulate(true_masa, incs[i + 1])
    /\ pc' = "l106"
    /\ UNCHANGED <<args, rng, vals, incs, i, locals, recs, hist, sapVars>>

DensNominal(w) == Uniform(Micro(700000), Micro(900000), w)
DensNegative(w) == RNeg(RAbs(Uniform(Micro(10000), Micro(500000), w)))
DensAboveOne(w) == RAdd(Micro(1000000), Uniform(Micro(10000), Micro(800000), w))

DensUniform ==
    /\ pc = "l106"
    /\ \E w \in Raw :
        /\ Stream(w)
        /\ dens' = DensNominal(w)
    /\ pc' = "l107"
    /\ UNCHANGED <<args, vals, incs, i, prev_true, true_masa, caudal, alt, temp,
                   reported_masa, recs, hist, sapVars>>

DensTest ==
    /\ pc = "l107"
    /\ \E w \in Raw :
        /\ Stream(w)
        /\ pc' = IF Hit(args.prob_bad_density, w) THEN "l109" ELSE "l118"
    /\ UNCHANGED <<args, vals, incs, i, prev_true, true_masa, locals, recs, hist, sapVars>>

DensSide ==
    /\ pc = "l109"
    /\ \E w \in Raw :
        /\ Stream(w)
        /\ pc' = IF RLt(Random(w), Rat(1, 2)) THEN "l110" ELSE "l112"
    /\ UNCHANGED <<args, vals, incs, i, prev_true, true_masa, locals, recs, hist, sapVars>>

DensBelow ==
    /\ pc = "l110"
    /\ \E w \in Raw :
        /\ Stream(w)
        /\ dens' = DensNegative(w)
    /\ pc' = "l118"
    /\ UNCHANGED <<args, vals, incs, i, prev_true, true_masa, caudal, alt, temp,
                   reported_masa, recs, hist, sapVars>>

DensAbove ==
    /\ pc = "l112"
    /\ \E w \in Raw :
        /\ Stream(w)
        /\ dens' = DensAboveOne(w)
    /\ pc' = "l118"
    /\ UNCHANGED <<args, vals, incs, i, prev_true, true_masa, caudal, alt, temp,
                   reported_masa, recs, hist, sapVars>>

CaudalNominal(inc, w) == RMul(RMul(inc, R(3600)), Uniform(Rat(6, 10), Rat(14, 10), w))
CaudalNegative(w) == RNeg(RAbs(Uniform(Zero, Milli(200000), w)))

CaudalJitter ==
    /\ pc = "l118"
    /\ \E w \in Raw :
        /\ Stream(w)
        /\ caudal' = CaudalNominal(incs[i + 1], w)
    /\ pc' = "l119"
    /\ UNCHANGED <<args, vals, incs, i, prev_true, true_masa, dens, alt, temp,
                   reported_masa, recs, hist, sapVars>>

CaudalTest ==
    /\ pc = "l119"
    /\ \E w \in Raw :
        /\ Stream(w)
        /\ pc' = IF Hit(args.prob_bad_caudal, w) THEN "l121" ELSE "l124"
    /\ UNCHANGED <<args, vals, incs, i, prev_true, true_masa, locals, recs, hist, sapVars>>

\* line 121 builds the list [0.0, -abs(rng.uniform(0.0, 200.0))] first
CaudalList ==
    /\ pc = "l121"
    /\ \E w \in Raw :
        /\ Stream(w)
        /\ alt' = CaudalNegative(w)
    /\ pc' = "l121c"
    /\ UNCHANGED <<args, vals, incs, i, prev_true, true_masa, dens, caudal, temp,
                   reported_masa, recs, hist, sapVars>>

CaudalChoice ==
    /\ pc = "l121c"
    /\ \E w \in Raw :
        /\ Stream(w)
        /\ caudal' = Choice(<<Zero, alt>>, w)
    /\ alt' = Zero
    /\ pc' = "l124"
    /\ UNCHANGED <<args, vals, incs, i, prev_true, true_masa, dens, temp,
                   reported_masa, recs, hist, sapVars>>

TempNominal(w) == Gauss(Milli(20000), Milli(1800), w)
TempAlarm(w) == RAdd(R(args.temp_threshold), Uniform(Milli(100), Milli(8000), w))

TempGauss ==
    /\ pc = "l124"
    /\ \E w \in Raw :
        /\ Stream(w)
        /\ temp' = TempNominal(w)
    /\ pc' = "l127"
    /\ UNCHANGED <<args, vals, incs, i, prev_true, true_masa, dens, caudal, alt,
                   reported_masa, recs, hist, sapVars>>

TempTest ==
    /\ pc = "l127"
    /\ \E w \in Raw :
        /\ Stream(w)
        /\ pc' = IF Hit(args.prob_high_temp, w) THEN "l128" ELSE "l131"
    /\ UNCHANGED <<args, vals, incs, i, prev_true, true_masa, locals, recs, hist, sapVars>>

TempHigh ==
    /\ pc = "l128"
    /\ \E w \in Raw :
        /\ Stream(w)
        /\ temp' = TempAlarm(w)
    /\ pc' = "l131"
    /\ UNCHANGED <<args, vals, incs, i, prev_true, true_masa, dens, caudal, alt,
                   reported_masa, recs, hist, sapVars>>

MasaDecreasing(w) ==
    RSub(prev_true, Uniform(Milli(1000), RMax(Milli(1000), RMul(prev_true, Rat(2, 10))), w))
MasaNegative(w) == Uniform(Milli(-50000), Zero, w)

MassTest ==
    /\ pc = "l131"
    /\ \E w \in Raw :
        /\ Stream(w)
        /\ IF Hit(args.prob_bad_mass, w)
           THEN /\ pc' = "l132"
                /\ reported_masa' = reported_masa
           ELSE /\ pc' = "l143"
                /\ reported_masa' = true_masa
    /\ UNCHANGED <<args, vals, incs, i, prev_true, true_masa, dens, caudal, alt, temp,
                   recs, hist, sapVars>>

MassSide ==
    /\ pc = "l132"
    /\ \E w \in Raw :
        /\ Stream(w)
        /\ pc' = IF RLt(Random(w), Rat(1, 2)) THEN "l134" ELSE "l137"
    /\ UNCHANGED <<args, vals, incs, i, prev_true, true_masa, locals, recs, hist, sapVars>>

MassDecrease ==
    /\ pc = "l134"
    /\ \E w \in Raw :
        /\ Stream(w)
        /\ reported_masa' = MasaDecreasing(w)
    /\ pc' = "l143"
    /\ UNCHANGED <<args, vals, incs, i, prev_true, true_masa, dens, caudal, alt, temp,
                   recs, hist, sapVars>>

MassNegative ==
    /\ pc = "l137"
    /\ \E w \in Raw :
        /\ Stream(w)
        /\ reported_masa' = MasaNegative(w)
    /\ pc' = "l143"
    /\ UNCHANGED <<args, vals, incs, i, prev_true, true_masa, dens, caudal, alt, temp,
                   recs, hist, sapVars>>

\* the last record left as the corruption decision made it
FinalOverrideSkipped(m) == m
\* lines 143-144
FinalOverride(m) == IF i = Len(incs) - 1 THEN R(args.final_mass) ELSE m

\* lines 147-153
MakeRecord(m) ==
    [masaAcumulada |-> Round3(m),
     densidad      |-> Round6(dens),
     temperatura   |-> Round3(temp),
     caudal        |-> Round3(caudal),
     orden_id      |-> args.order_id]

NoRecord ==
    [masaAcumulada |-> 0, densidad |-> 0, temperatura |-> 0, caudal |-> 0, orden_id |-> 0]

\* records is only appended to: the model keeps its length, its last element and
\* the mass of the element before; the locals are dead once the record is built.
AppendRecord ==
    /\ pc = "l143"
    /\ record' = MakeRecord(FinalOverride(reported_masa))
    /\ n_records' = n_records + 1
    /\ prev_masa' = record.masaAcumulada
    /\ out' = IF run = 0 THEN out ELSE Append(out, record')
    /\ dens' = Zero /\ caudal' = Zero /\ alt' = Zero /\ temp' = Zero
    /\ reported_masa' = Zero
    /\ i' = i + 1
    /\ pc' = "for"
    /\ UNCHANGED <<args, rng, vals, incs, prev_true, true_masa, run, first, sapVars>>

Return ==
    /\ pc = "for"
    /\ i >= Len(incs)
    /\ pc' = "done"
    /\ UNCHANGED <<args, rng, vals, incs, i, prev_true, true_masa, locals, recs, hist,
                   sapVars>>

(***************************************************************************)
(* Inputs                                                                  *)
(***************************************************************************)
IterVals == (-1) .. MaxN
\* <<start_mass, final_mass>>: equal, growing and shrinking, on and off the
\* three-decimal grid, below and above the 5 kg where 0.2 * prev_true exceeds 1.0
HighStart == 5000 * MilliParts + 3
MassPairs ==
    {<<0, 0>>, <<0, 27>>, <<4, 1>>,
     <<HighStart, HighStart - 3>>, <<HighStart, HighStart>>, <<HighStart, HighStart + 7>>}
ThresholdVals == {30000 * MilliParts + 1}
ProbVals == {0, ProbDen}
SeedVals == {NoSeed, 42}

ArgsOver(iters, seeds) ==
    { [iterations |-> n, order_id |-> DEFAULT_ORDER_ID, final_mass |-> m[2],
       start_mass |-> m[1], temp_threshold |-> th, prob_bad_caudal |-> pc1,
       prob_bad_mass |-> pm, prob_bad_density |-> pd, prob_high_temp |-> pt,
       seed |-> sd] :
         n \in iters, m \in MassPairs, th \in ThresholdVals,
         pc1 \in ProbVals, pm \in ProbVals, pd \in ProbVals, pt \in ProbVals,
         sd \in seeds }

ArgSet == ArgsOver(IterVals, {NoSeed})

SapIdle ==
    /\ sargs = <<>>
    /\ spc = "idle"
    /\ defaults = <<>>
    /\ payload = <<>>
    /\ out_name = ""

NewRandom(seed, tape) == [seeded |-> seed # NoSeed, pos |-> 0, tape |-> tape]

Start(r) ==
    /\ pc = "enter"
    /\ rng = NewRandom(args.seed, <<>>)
    /\ vals = <<>>
    /\ incs = <<>>
    /\ i = 0
    /\ prev_true = Zero
    /\ true_masa = R(args.start_mass)
    /\ dens = Zero /\ caudal = Zero /\ alt = Zero /\ temp = Zero
    /\ reported_masa = Zero
    /\ n_records = 0
    /\ record = NoRecord
    /\ prev_masa = 0
    /\ run = r
    /\ first = <<>>
    /\ out = <<>>

Init ==
    /\ args \in ArgSet
    /\ Start(0)
    /\ SapIdle

Next ==
    \/ Enter \/ IncGauss \/ IncUniform \/ IncSum
    \/ ForNext \/ DensUniform \/ DensTest \/ DensSide \/ DensBelow \/ DensAbove
    \/ CaudalJitter \/ CaudalTest \/ CaudalList \/ CaudalChoice
    \/ TempGauss \/ TempTest \/ TempHigh
    \/ MassTest \/ MassSide \/ MassDecrease \/ MassNegative
    \/ AppendRecord \/ Return

Spec == Init /\ [][Next]_vars

(***************************************************************************)
(* Two runs of build_details with the same arguments                       *)
(***************************************************************************)
ReplayArgs ==
    { a \in ArgsOver({0, 1}, SeedVals) :
        /\ a.start_mass = 0
        /\ a.final_mass = 27
        /\ a.prob_bad_caudal + a.prob_bad_mass + a.prob_bad_density + a.prob_high_temp
             <= 2 * ProbDen }

InitReplay ==
    /\ args \in ReplayArgs
    /\ Start(1)
    /\ SapIdle

\* main is run again with the same command line: a new random.Random(args.seed)
Rerun ==
    /\ pc = "done"
    /\ run = 1
    /\ run' = 2
    /\ first' = out
    /\ out' = <<>>
    /\ rng' = NewRandom(args.seed, IF args.seed # NoSeed THEN rng.tape ELSE <<>>)
    /\ pc' = "enter"
    /\ vals' = <<>>
    /\ incs' = <<>>
    /\ i' = 0
    /\ prev_true' = Zero
    /\ true_masa' = R(args.start_mass)
    /\ n_records' = 0
    /\ record' = NoRecord
    /\ prev_masa' = 0
    /\ UNCHANGED <<args, locals, sapVars>>

NextReplay == Next \/ Rerun

SpecReplay == InitReplay /\ [][NextReplay]_vars

(***************************************************************************)
(* generadorOrdenesSap.py                                                  *)
(*                                                                         *)
(* A string is an atom, except the text of --cisternado, which is the      *)
(* sequence of its characters.  A flag that is not passed is None.         *)
(***************************************************************************)
None == "<None>"

StrFlags ==
    {"order_code", "fechaPrevistaCarga", "cliente_razonSocial", "codigo_cliente",
     "cliente_contacto", "patente", "codigo_camion", "descripcion_camion", "documento",
     "codigo_chofer", "chofer_nombre", "chofer_apellido", "producto_nombre",
     "codigo_producto", "producto_descripcion", "output"}
Flags == StrFlags \cup {"preset", "cisternado"}

StrVals == {"", "ABC12345"}
OutputVals == {"", "pedido.json"}
PresetVals == {0, 1200}
CisChars == {"1", ",", " ", "x"}
Digits == {"1"}
CisVals == UNION { [1 .. n -> CisChars] : n \in 0 .. MaxCisLen }

\* the namespaces parse_args can return with at most MaxFlags valued flags passed
SapArgSet ==
    UNION { { [str        |-> [f \in StrFlags |-> IF f \in S THEN v[f] ELSE None],
               preset     |-> [given |-> "preset" \in S, value |-> pv],
               cisternado |-> [given |-> "cisternado" \in S, value |-> cv],
               overwrite  |-> ow] :
                 v \in { w \in [S \cap StrFlags -> StrVals \cup OutputVals] :
                            \A f \in S \cap StrFlags :
                                w[f] \in IF f = "output" THEN OutputVals ELSE StrVals },
                 pv \in IF "preset" \in S THEN PresetVals ELSE {0},
                 cv \in IF "cisternado" \in S THEN CisVals ELSE {<<>>},
                 ow \in BOOLEAN } :
            S \in {T \in SUBSET Flags : Cardinality(T) <= MaxFlags} }

\* the generated identifiers: the ends of random.randint's range, in a run of
\* the year 2026
generate_order_code == { "SAP-2026-" \o n : n \in {"100", "999999"} }
generate_codigo(prefix, digits) ==
    { prefix \o "-" \o n : n \in IF digits = 5 THEN {"00001"} ELSE {"999999"} }
generate_patente == {"GF56726"}

build_default_payload ==
    { [order_code |-> oc,
       preset |-> 2500,
       fechaPrevistaCarga |-> "2025-11-16T14:00:00-0300",
       cliente |-> [razonSocial |-> "Shell", codigo_cliente |-> cc,
                    contacto |-> "+54 11 5555-1112"],
       camion |-> [patente |-> pt, codigo_camion |-> ct,
                   descripcion |-> "Camion cisterna aluminio",
                   cisternado |-> <<10000, 2500>>],
       chofer |-> [documento |-> "30151231", codigo_chofer |-> ch,
                   nombre |-> "Juan", apellido |-> "Perez"],
       producto |-> [nombre |-> "Butano", codigo_producto |-> cp,
                     descripcion |-> "Combustible para calefaccion"]] :
         oc \in generate_order_code, cc \in generate_codigo("CLI", 5),
         pt \in generate_patente, ct \in generate_codigo("TRK", 5),
         ch \in generate_codigo("DRV", 6), cp \in generate_codigo("PROD", 6) }

\* truth value of an optional string argument: None and "" are false
Truthy(x) == x # None /\ x # ""

RECURSIVE SplitComma(_)
SplitComma(t) ==
    IF \A k \in 1 .. Len(t) : t[k] # ","
    THEN <<t>>
    ELSE LET k == CHOOSE j \in 1 .. Len(t) : t[j] = "," /\ \A h \in 1 .. (j - 1) : t[h] # ","
         IN  <<SubSeq(t, 1, k - 1)>> \o SplitComma(SubSeq(t, k + 1, Len(t)))

RECURSIVE Strip(_)
Strip(t) ==
    IF t # <<>> /\ t[1] = " " THEN Strip(Tail(t))
    ELSE IF t # <<>> /\ t[Len(t)] = " " THEN Strip(SubSeq(t, 1, Len(t) - 1))
    ELSE t

\* [p.strip() for p in text.split(',') if p.strip()]
Parts(t) ==
    LET raw == SplitComma(t)
        stripped == [k \in 1 .. Len(raw) |-> Strip(raw[k])]
    IN  SelectSeq(stripped, LAMBDA x : x # <<>>)

\* int(x) raises ValueError unless x is a run of digits
IsInt(x) == x # <<>> /\ \A k \in 1 .. Len(x) : x[k] \in Digits
DigitVal(c) == IF c = "1" THEN 1 ELSE 0
RECURSIVE ToInt(_)
ToInt(x) == IF x = <<>> THEN 0 ELSE 10 * ToInt(SubSeq(x, 1, Len(x) - 1)) + DigitVal(x[Len(x)])

\* lines 131-137
Cisternado(old, a) ==
    IF a.given /\ a.value # <<>>
    THEN LET parts == Parts(a.value)
         IN  IF \A k \in 1 .. Len(parts) : IsInt(parts[k])
             THEN [k \in 1 .. Len(parts) |-> ToInt(parts[k])]
             ELSE old
    ELSE old

\* "is not None" in place of the truth test
OverrideIfGiven(old, x) == IF x # None THEN x ELSE old
Override(old, x) == IF Truthy(x) THEN x ELSE old
OverridePreset(old, a) == IF a.given THEN a.value ELSE old

apply_overrides(p, a) ==
    [order_code |-> Override(p.order_code, a.str["order_code"]),
     preset |-> OverridePreset(p.preset, a.preset),
     fechaPrevistaCarga |-> Override(p.fechaPrevistaCarga, a.str["fechaPrevistaCarga"]),
     cliente |->
        [razonSocial |-> Override(p.cliente.razonSocial, a.str["cliente_razonSocial"]),
         codigo_cliente |-> Override(p.cliente.codigo_cliente, a.str["codigo_cliente"]),
         contacto |-> Override(p.cliente.contacto, a.str["cliente_contacto"])],
     camion |->
        [patente |-> Override(p.camion.patente, a.str["patente"]),
         codigo_camion |-> Override(p.camion.codigo_camion, a.str["codigo_camion"]),
         descripcion |-> Override(p.camion.descripcion, a.str["descripcion_camion"]),
         cisternado |-> Cisternado(p.camion.cisternado, a.cisternado)],
     chofer |->
        [documento |-> Override(p.chofer.documento, a.str["documento"]),
         codigo_chofer |-> Override(p.chofer.codigo_chofer, a.str["codigo_chofer"]),
         nombre |-> Override(p.chofer.nombre, a.str["chofer_nombre"]),
         apellido |-> Override(p.chofer.apellido, a.str["chofer_apellido"])],
     producto |->
        [nombre |-> Override(p.producto.nombre, a.str["producto_nombre"]),
         codigo_producto |-> Override(p.producto.codigo_producto, a.str["codigo_producto"]),
         descripcion |-> Override(p.producto.descripcion, a.str["producto_descripcion"])]]

\* line 169; --overwrite is parsed and never read
OutputName(a) == IF Truthy(a.str["output"]) THEN a.str["output"] ELSE "ordenSap.JSON"

DetIdle ==
    /\ args = <<>>
    /\ pc = "idle"
    /\ rng = <<>>
    /\ vals = <<>> /\ incs = <<>> /\ i = 0
    /\ prev_true = Zero /\ true_masa = Zero
    /\ dens = Zero /\ caudal = Zero /\ alt = Zero /\ temp = Zero
    /\ reported_masa = Zero
    /\ n_records = 0 /\ record = NoRecord /\ prev_masa = 0
    /\ run = 0 /\ first = <<>> /\ out = <<>>

InitSap ==
    /\ sargs \in SapArgSet
    /\ spc = "build"
    /\ defaults = <<>>
    /\ payload = <<>>
    /\ out_name = ""
    /\ DetIdle

\* line 162
BuildDefault ==
    /\ spc = "build"
    /\ payload' \in build_default_payload
    /\ defaults' = payload'
    /\ spc' = "override"
    /\ UNCHANGED <<sargs, out_name, detVars>>

\* line 165
ApplyOverrides ==
    /\ spc = "override"
    /\ payload' = apply_overrides(payload, sargs)
    /\ spc' = "name"
    /\ UNCHANGED <<sargs, defaults, out_name, detVars>>

\* lines 169-174
WriteFile ==
    /\ spc = "name"
    /\ out_name' = OutputName(sargs)
    /\ spc' = "written"
    /\ UNCHANGED <<sargs, defaults, payload, detVars>>

NextSap == BuildDefault \/ ApplyOverrides \/ WriteFile

SpecSap == InitSap /\ [][NextSap]_vars

(***************************************************************************)
(* Claims about generadorDetallesDeOrden.py                                *)
(***************************************************************************)
N == args.iterations
Returned == pc = "done"
AfterAppend == pc = "for" /\ n_records >= 1
NonFinal == n_records < Len(incs)
One == ProbDen
MaxMass == IF args.final_mass >= args.start_mass THEN args.final_mass ELSE args.start_mass
InThousandths(q) == R(q * MilliParts)

AllZero ==
    /\ args.prob_bad_caudal = 0 /\ args.prob_bad_mass = 0
    /\ args.prob_bad_density = 0 /\ args.prob_high_temp = 0
CorruptionBranches == {"l109", "l110", "l112", "l121", "l121c", "l128", "l132", "l134", "l137"}
NominalRecord ==
    /\ record.densidad >= 700000 /\ record.densidad <= 900000
    /\ record.caudal >= 0

DensityCorrupted == record.densidad < 0 \/ record.densidad > 1000000
CaudalCorrupted == record.caudal <= 0
TempCorrupted == RLt(R(args.temp_threshold), InThousandths(record.temperatura))
MassNonPositive == record.masaAcumulada >= -50000 /\ record.masaAcumulada <= 0
OtherPatterns ==
    /\ (args.prob_bad_density = One => DensityCorrupted)
    /\ (args.prob_bad_caudal = One => CaudalCorrupted)
    /\ (args.prob_high_temp = One => TempCorrupted)

\* C6 (as stated): a probability of 1.0 gives every non-final record the corrupted
\* pattern of its field: densidad < 0 or > 1; caudal <= 0; temperatura above
\* temp_threshold; masaAcumulada at least 1.0 below the previous true mass or
\* within [-50, 0].
C6_CorruptedPatterns ==
    (AfterAppend /\ NonFinal) =>
        /\ OtherPatterns
        /\ (args.prob_bad_mass = One =>
                \/ RLe(InThousandths(record.masaAcumulada), RSub(prev_true, Milli(1000)))
                \/ MassNonPositive)

\* C6 (amended): as stated, except that the masaAcumulada of the decreasing pattern
\* is the rounding to three decimals of a value at least 1.0 below the previous
\* true mass: it is at most round(prev_true - 1.0, 3).
C6_CorruptedPatternsRounded ==
    (AfterAppend /\ NonFinal) =>
        /\ OtherPatterns
        /\ (args.prob_bad_mass = One =>
                \/ record.masaAcumulada <= Round3(RSub(prev_true, Milli(1000)))
                \/ MassNonPositive)

\* C6 witness: a non-final record of a run with the four probabilities at 1.0 that
\* reports a decreased, still positive mass.
C6_Witness ==
    /\ AfterAppend /\ NonFinal
    /\ args.prob_bad_caudal = One /\ args.prob_bad_mass = One
    /\ args.prob_bad_density = One /\ args.prob_high_temp = One
    /\ record.masaAcumulada > 0
    /\ record.densidad < 0

\* C7: build_details returns exactly N records for every N >= 0; for N = 0 nothing
\* is raised, no sample is drawn and no loop iteration runs.
C7_ReturnsNRecords ==
    /\ pc # "raised"
    /\ (Returned /\ N >= 0 => n_records = N)
    /\ (N = 0 => pc \in {"enter", "for", "done"} /\ n_records = 0 /\ incs = <<>>)

\* C7 witness: a run with N = 0 has returned, with no record.
C7_Witness == Returned /\ N = 0 /\ n_records = 0

NoMassLeft == args.final_mass <= args.start_mass /\ N > 0
IncrementsKnown == pc \notin {"enter", "gauss", "uniform", "sum", "raised"}

Seeded == args.seed # NoSeed

\* C4: in the second of two runs with the same explicit seed and the same
\* arguments, the records appended so far are those of the first run, in order,
\* and on return the two sequences are identical.
C4_SameSeedSameRecords ==
    (run = 2 /\ Seeded) =>
        /\ Len(out) <= Len(first)
        /\ out = SubSeq(first, 1, Len(out))
        /\ (Returned => out = first)

\* C4 witness: the second run with seed 42 has returned a record with a corrupted
\* density, having drawn every word the first run drew.
C4_Witness ==
    /\ run = 2 /\ Seeded /\ Returned
    /\ Len(out) = 1
    /\ out[1].densidad < 0
    /\ rng.pos = Len(rng.tape)
    /\ rng.pos >= 9

(***************************************************************************)
(* Claims about generadorOrdenesSap.py                                     *)
(***************************************************************************)
PayloadFlags == StrFlags \ {"output"}

FieldOf(p, f) ==
    CASE f = "order_code" -> p.order_code
      [] f = "fechaPrevistaCarga" -> p.fechaPrevistaCarga
      [] f = "cliente_razonSocial" -> p.cliente.razonSocial
      [] f = "codigo_cliente" -> p.cliente.codigo_cliente
      [] f = "cliente_contacto" -> p.cliente.contacto
      [] f = "patente" -> p.camion.patente
      [] f = "codigo_camion" -> p.camion.codigo_camion
      [] f = "descripcion_camion" -> p.camion.descripcion
      [] f = "documento" -> p.chofer.documento
      [] f = "codigo_chofer" -> p.chofer.codigo_chofer
      [] f = "chofer_nombre" -> p.chofer.nombre
      [] f = "chofer_apellido" -> p.chofer.apellido
      [] f = "producto_nombre" -> p.producto.nombre
      [] f = "codigo_producto" -> p.producto.codigo_producto
      [] f = "producto_descripcion" -> p.producto.descripcion

Overridden == spc \in {"name", "written"}
DenotesInts(t) == \A k \in 1 .. Len(Parts(t)) : IsInt(Parts(t)[k])
IntsOf(t) == [k \in 1 .. Len(Parts(t)) |-> ToInt(Parts(t)[k])]

\* C9 (as stated): after apply_overrides every field whose flag was passed equals
\* the passed value (for cisternado, the integers its text lists), and every
\* other field keeps the value of build_default_payload.
C9_EveryPassedFlagOverrides ==
    Overridden =>
        /\ \A f \in PayloadFlags :
              FieldOf(payload, f) =
                  IF sargs.str[f] # None THEN sargs.str[f] ELSE FieldOf(defaults, f)
        /\ payload.preset =
              IF sargs.preset.given THEN sargs.preset.value ELSE defaults.preset
        /\ IF sargs.cisternado.given
           THEN /\ DenotesInts(sargs.cisternado.value)
                /\ payload.camion.cisternado = IntsOf(sargs.cisternado.value)
           ELSE payload.camion.cisternado = defaults.camion.cisternado

\* C9 (amended): after apply_overrides a string field equals the passed value when
\* its flag was passed with a non-empty value; preset equals the passed number
\* whenever its flag was passed; cisternado is the list of the integers of the
\* passed text when that text is non-empty and each of its comma-separated
\* non-blank parts is an integer; every other field, a flag passed empty or an
\* unparsable cisternado included, keeps the value of build_default_payload.
C9_NonEmptyFlagOverrides ==
    Overridden =>
        /\ \A f \in PayloadFlags :
              FieldOf(payload, f) =
                  IF sargs.str[f] \notin {None, ""} THEN sargs.str[f]
                  ELSE FieldOf(defaults, f)
        /\ payload.preset =
              IF sargs.preset.given THEN sargs.preset.value ELSE defaults.preset
        /\ payload.camion.cisternado =
              IF /\ sargs.cisternado.given
                 /\ sargs.cisternado.value # <<>>
                 /\ DenotesInts(sargs.cisternado.value)
              THEN IntsOf(sargs.cisternado.value)
              ELSE defaults.camion.cisternado

\* C9 witness: --patente ABC12345 --cisternado 11 was applied: both fields hold
\* the passed values and order_code is the generated one.
C9_Witness ==
    /\ spc = "written"
    /\ sargs.str["patente"] = "ABC12345"
    /\ payload.camion.patente = "ABC12345"
    /\ sargs.cisternado.given
    /\ payload.camion.cisternado = <<11>>
    /\ payload.order_code = defaults.order_code
    /\ payload.order_code \in generate_order_code

\* C10: the file is named <order_code>.json when --output is not given, and
\* ordenSap.json only when --overwrite is set.
C10_DefaultNameIsOrderCode ==
    (spc = "written" /\ ~Truthy(sargs.str["output"])) =>
        out_name = IF sargs.overwrite THEN "ordenSap.json"
                   ELSE payload.order_code \o ".json"

====
